---- MODULE Spec2Model ----
(***************************************************************************)
(* A model of src/VideoEffect.py: the AudioSoundWavesEffect node.          *)
(*                                                                         *)
(* combine_audio_soundwave is modelled step by step (video input, audio    *)
(* input, composition, export frame by frame, upload, payload, finally),   *)
(* with the temporary files each step creates; _create_wave_overlay and    *)
(* its closure make_frame are modelled as the code computes them; and      *)
(* _hex_to_rgb is modelled character by character, Python's int(s, 16)     *)
(* included.                                                               *)
(*                                                                         *)
(* Numbers.  Sample values are rationals a / AmpDen, durations are tenths  *)
(* of a second (the node's FLOAT step), frame k is shown at t = k / Fps.   *)
(* All arithmetic is exact: Python's int() is truncation toward zero       *)
(* (TruncDiv), // is floor division.  Floating-point rounding of           *)
(* t * sample_rate is not modelled.                                        *)
(***************************************************************************)
EXTENDS Integers, Sequences, FiniteSets, TLC

VARIABLES
    pc,                 \* position inside combine_audio_soundwave
    args,               \* the arguments of the call in progress
    files,              \* temporary files of this call that exist on disk
    temp_output_path,   \* the local variable: "None" or "output"
    error,              \* the exception being propagated, "none" if none
    overlay,            \* what _create_wave_overlay computed for make_frame
    frame_no,           \* index of the frame make_frame was last called for
    amp,                \* make_frame's amp for that frame (numerator over AmpDen)
    frame_img,          \* the RGBA image make_frame returned
    hex_color,          \* the argument of the last direct _hex_to_rgb call
    rgb                 \* and what it produced

vars == <<pc, args, files, temp_output_path, error, overlay, frame_no, amp,
          frame_img, hex_color, rgb>>

runVars == <<pc, args, files, temp_output_path, error, overlay, frame_no, amp,
             frame_img>>

colorVars == <<hex_color, rgb>>

(***************************************************************************)
(* Bounds of the model.                                                    *)
(***************************************************************************)
\* longest waveform (in samples) handed to the node
MaxSamples == 3
\* longest colour string handed to _hex_to_rgb ("#RRGGBB" has 7 characters)
MaxColorLen == 7
\* resolution of sample values: a sample is a / AmpDen
AmpDen == 2

(***************************************************************************)
(* Program constants.                                                      *)
(***************************************************************************)
\* fps = 24 in _create_wave_overlay
Fps == 24
\* start_duration / end_duration are multiples of 0.1 s
DurDen == 10
\* len(hex_color) == 6
HexLen == 6
\* the alpha channel appended by _hex_to_rgb
Opaque == 255

(***************************************************************************)
(* Arithmetic helpers.                                                     *)
(***************************************************************************)
Abs(n) == IF n < 0 THEN -n ELSE n

\* Python's int() of the rational n / d (d > 0): truncation toward zero
TruncDiv(n, d) == IF n >= 0 THEN n \div d ELSE -((-n) \div d)

\* Python's floor division n // d for d > 0
FloorDiv(n, d) == n \div d

\* round(n / d), d > 0, halves away from zero; used only to state claims
RoundDiv(n, d) == IF n >= 0 THEN (2 * n + d) \div (2 * d)
                  ELSE -((2 * (-n) + d) \div (2 * d))

Min(a, b) == IF a <= b THEN a ELSE b

(***************************************************************************)
(* _hex_to_rgb.  A string is a sequence of one-character strings; a value  *)
(* that is no string is [kind |-> "other"].                                *)
(***************************************************************************)
HexDigits == <<"0", "1", "2", "3", "4", "5", "6", "7", "8", "9",
               "a", "b", "c", "d", "e", "f">>

UpperHex == <<"A", "B", "C", "D", "E", "F">>

IsHexDigit(c) == (\E i \in 1..16 : HexDigits[i] = c)
                 \/ (\E i \in 1..6 : UpperHex[i] = c)

HexVal(c) == IF \E i \in 1..16 : HexDigits[i] = c
             THEN (CHOOSE i \in 1..16 : HexDigits[i] = c) - 1
             ELSE (CHOOSE i \in 1..6 : UpperHex[i] = c) + 9

IsSpace(c) == c = " "

\* str.strip() of whitespace, at both ends
RECURSIVE LStripSpace(_)
LStripSpace(s) == IF s # <<>> /\ IsSpace(Head(s)) THEN LStripSpace(Tail(s)) ELSE s

RECURSIVE RStripSpace(_)
RStripSpace(s) == IF s # <<>> /\ IsSpace(s[Len(s)])
                  THEN RStripSpace(SubSeq(s, 1, Len(s) - 1)) ELSE s

RECURSIVE HexDigitsValue(_)
HexDigitsValue(s) == IF s = <<>> THEN 0
                     ELSE 16 * HexDigitsValue(SubSeq(s, 1, Len(s) - 1))
                          + HexVal(s[Len(s)])

\* Python's int(s, 16) for a slice of at most two characters: surrounding
\* whitespace is stripped, one sign is accepted, then at least one hex digit
\* must follow and nothing else ("0x" and "_" cannot be completed in two
\* characters).  ok = FALSE stands for ValueError.
IntBase16(s) ==
    LET t == RStripSpace(LStripSpace(s))
        signed == t # <<>> /\ Head(t) \in {"+", "-"}
        digits == IF signed THEN Tail(t) ELSE t
        wellFormed == digits # <<>> /\ \A i \in 1..Len(digits) : IsHexDigit(digits[i])
    IN  IF ~wellFormed THEN [ok |-> FALSE, val |-> 0]
        ELSE [ok |-> TRUE,
              val |-> IF signed /\ Head(t) = "-" THEN -HexDigitsValue(digits)
                      ELSE HexDigitsValue(digits)]

\* str.lstrip('#'): every leading '#'
RECURSIVE LStripHash(_)
LStripHash(s) == IF s # <<>> /\ Head(s) = "#" THEN LStripHash(Tail(s)) ELSE s

DefaultColor == <<255, 0, 0, Opaque>>

\* a variant of _hex_to_rgb that forgets lstrip('#')
HexToRgb_NoLStrip(c) ==
    IF c.kind # "str" THEN [raised |-> FALSE, value |-> DefaultColor]
    ELSE LET s == c.chars
             r == IntBase16(SubSeq(s, 1, 2))
             g == IntBase16(SubSeq(s, 3, 4))
             b == IntBase16(SubSeq(s, 5, 6))
         IN  IF Len(s) = HexLen /\ r.ok /\ g.ok /\ b.ok
             THEN [raised |-> FALSE, value |-> <<r.val, g.val, b.val, Opaque>>]
             ELSE [raised |-> FALSE, value |-> DefaultColor]

\* _hex_to_rgb: the bare except swallows every exception (AttributeError of a
\* non-string, ValueError of int), so no call raises
HexToRgb(c) ==
    IF c.kind # "str" THEN [raised |-> FALSE, value |-> DefaultColor]
    ELSE LET s == LStripHash(c.chars)
             r == IntBase16(SubSeq(s, 1, 2))
             g == IntBase16(SubSeq(s, 3, 4))
             b == IntBase16(SubSeq(s, 5, 6))
         IN  IF Len(s) = HexLen /\ r.ok /\ g.ok /\ b.ok
             THEN [raised |-> FALSE, value |-> <<r.val, g.val, b.val, Opaque>>]
             ELSE [raised |-> FALSE, value |-> DefaultColor]

Str(chars) == [kind |-> "str", chars |-> chars]

NotAString == [kind |-> "other", chars |-> <<>>]

(***************************************************************************)
(* _create_wave_overlay and its closure make_frame.                        *)
(***************************************************************************)
\* the y of the line the waves are drawn about
WaveYMid(h, wave_position) ==
    CASE wave_position = "center" -> FloorDiv(h, 2)
      [] wave_position = "top_third" -> FloorDiv(h, 3)
      [] wave_position = "bottom_third" -> FloorDiv(h * 2, 3)
      [] OTHER -> FloorDiv(h, 2)

\* total_duration = start_duration + audio_clip.duration + end_duration, as
\* the exact rational num / den seconds (the audio lasts len / sample_rate)
TotalDuration(start_duration, n_samples, sample_rate, end_duration) ==
    [num |-> sample_rate * start_duration + DurDen * n_samples
             + sample_rate * end_duration,
     den |-> DurDen * sample_rate]

\* total_samples = int(sample_rate * duration)
TotalSamples(sample_rate, duration) ==
    TruncDiv(sample_rate * duration.num, duration.den)

\* a variant that pads by repeating the last sample instead of zeros
PadOrTrim_RepeatLast(waveform, total_samples) ==
    IF Len(waveform) < total_samples
    THEN waveform \o [i \in 1..(total_samples - Len(waveform)) |->
                          waveform[Len(waveform)]]
    ELSE IF Len(waveform) > total_samples
         THEN SubSeq(waveform, 1, total_samples)
         ELSE waveform

\* the waveform zero-padded or cut to total_samples samples
PadOrTrim(waveform, total_samples) ==
    IF Len(waveform) < total_samples
    THEN waveform \o [i \in 1..(total_samples - Len(waveform)) |-> 0]
    ELSE IF Len(waveform) > total_samples
         THEN SubSeq(waveform, 1, total_samples)
         ELSE waveform

\* index = int(t * sample_rate) for the frame shown at t = k / Fps
SampleIndex(k, sample_rate) == TruncDiv(k * sample_rate, Fps)

\* amp: 0 outside the (padded) waveform, the raw sample inside it
SampleAt(waveform, index) ==
    IF index < 0 \/ index >= Len(waveform) THEN 0 ELSE waveform[index + 1]

\* Image.new("RGBA", (w, h), (255, 255, 255, 0)): nothing drawn yet
BlankFrame(w, h) == [size |-> <<w, h>>, channels |-> 4, draws |-> <<>>]

\* a variant that extends the column by col_height on each side
DrawColumns_FullHeight(w, a, wave_width, wave_height, wave_y_mid, color) ==
    LET x_center == FloorDiv(w, 2)
        half == FloorDiv(wave_width, 2)
    IN  [op |-> "rectangle",
         x0 |-> x_center - half,
         y0 |-> TruncDiv(AmpDen * wave_y_mid - Abs(a) * wave_height, AmpDen),
         x1 |-> x_center + half,
         y1 |-> TruncDiv(AmpDen * wave_y_mid + Abs(a) * wave_height, AmpDen),
         fill |-> color, width |-> 0]

\* wave_type == "columns": one filled rectangle about (w // 2, wave_y_mid),
\* col_height = abs(amp) * wave_height high in all
DrawColumns(w, a, wave_width, wave_height, wave_y_mid, color) ==
    LET x_center == FloorDiv(w, 2)
        half == FloorDiv(wave_width, 2)
    IN  [op |-> "rectangle",
         x0 |-> x_center - half,
         y0 |-> TruncDiv(2 * AmpDen * wave_y_mid - Abs(a) * wave_height, 2 * AmpDen),
         x1 |-> x_center + half,
         y1 |-> TruncDiv(2 * AmpDen * wave_y_mid + Abs(a) * wave_height, 2 * AmpDen),
         fill |-> color, width |-> 0]

\* a variant that offsets the end of the line the other way
DrawWave_Flipped(w, a, wave_width, wave_height, wave_y_mid, color) ==
    [op |-> "line",
     x0 |-> 0,
     y0 |-> wave_y_mid,
     x1 |-> w,
     y1 |-> wave_y_mid - TruncDiv(a * wave_height, AmpDen),
     fill |-> color, width |-> wave_width]

\* wave_type == "wave": one straight line from (0, wave_y_mid) to
\* (w, wave_y_mid + int(amp * wave_height)), wave_width thick
DrawWave(w, a, wave_width, wave_height, wave_y_mid, color) ==
    [op |-> "line",
     x0 |-> 0,
     y0 |-> wave_y_mid,
     x1 |-> w,
     y1 |-> wave_y_mid + TruncDiv(a * wave_height, AmpDen),
     fill |-> color, width |-> wave_width]

\* a variant whose final branch draws columns for any other wave_type
DrawFrame_DefaultColumns(ov, a) ==
    LET blank == BlankFrame(ov.w, ov.h)
    IN  IF ov.wave_type = "wave"
        THEN [blank EXCEPT !.draws = <<DrawWave(ov.w, a, ov.wave_width,
                                ov.wave_height, ov.wave_y_mid, ov.wave_color_rgb)>>]
        ELSE [blank EXCEPT !.draws = <<DrawColumns(ov.w, a, ov.wave_width,
                                ov.wave_height, ov.wave_y_mid, ov.wave_color_rgb)>>]

\* the drawing part of make_frame: any other wave_type draws nothing
DrawFrame(ov, a) ==
    LET blank == BlankFrame(ov.w, ov.h)
    IN  IF ov.wave_type = "columns"
        THEN [blank EXCEPT !.draws = <<DrawColumns(ov.w, a, ov.wave_width,
                                ov.wave_height, ov.wave_y_mid, ov.wave_color_rgb)>>]
        ELSE IF ov.wave_type = "wave"
             THEN [blank EXCEPT !.draws = <<DrawWave(ov.w, a, ov.wave_width,
                                ov.wave_height, ov.wave_y_mid, ov.wave_color_rgb)>>]
             ELSE blank

\* _create_wave_overlay: what make_frame closes over
CreateWaveOverlay(a, duration) ==
    [w |-> a.size[1],
     h |-> a.size[2],
     wave_type |-> a.wave_type,
     wave_width |-> a.wave_width,
     wave_height |-> a.wave_height,
     wave_color_rgb |-> HexToRgb(a.wave_color).value,
     wave_y_mid |-> WaveYMid(a.size[2], a.wave_position),
     sample_rate |-> a.sample_rate,
     waveform |-> PadOrTrim(a.waveform, TotalSamples(a.sample_rate, duration)),
     duration |-> duration]

\* the frames the writer asks for: every k with k / Fps < duration
NumFrames(duration) ==
    (Fps * duration.num + duration.den - 1) \div duration.den

(***************************************************************************)
(* Inputs.  The waveform is what audio['waveform'].numpy().squeeze() gives *)
(* for mono audio of at least two samples (squeeze() turns a one-sample    *)
(* tensor into a 0-d array that has no len()).  Nothing in the code bounds *)
(* a sample, so the values reach past full scale (AmpDen).                 *)
(***************************************************************************)
SampleValues == {-(AmpDen + 1), 0, AmpDen \div 2, AmpDen, AmpDen + 1}

Waveforms == UNION {[1..n -> SampleValues] : n \in 2..MaxSamples}

Green == Str(<<"#", "0", "0", "f", "f", "0", "0">>)

BaseArgs == [video |-> "bytes", audio |-> "dict", waveform |-> <<0, 0>>,
             sample_rate |-> Fps, size |-> <<64, 48>>,
             wave_type |-> "columns", wave_position |-> "center",
             wave_width |-> 3, wave_height |-> 100, wave_color |-> Green,
             start_duration |-> 0, end_duration |-> 0]

\* calls that vary the audio timeline
TimelineArgs ==
    {[BaseArgs EXCEPT !.waveform = wf, !.sample_rate = sr,
                      !.start_duration = sd, !.end_duration = ed] :
        wf \in Waveforms, sr \in {12, Fps}, sd \in {0, 1, 5}, ed \in {0, 5}}

\* calls that vary the style of the overlay
StyleArgs ==
    {[BaseArgs EXCEPT !.waveform = wf, !.size = sz, !.wave_type = ty,
                      !.wave_position = pos, !.wave_width = ww,
                      !.wave_height = wh, !.wave_color = col] :
        wf \in [1..2 -> SampleValues],
        sz \in {<<40, 30>>, <<1920, 1080>>},
        ty \in {"columns", "wave", "bar"},
        pos \in {"center", "top_third", "bottom_third", "middle"},
        ww \in {1, 3, 4, 50},
        wh \in {10, 100, 1000},
        col \in {Green, Str(<<"a", "b", "c">>)}}

\* calls whose video or audio input is refused or unreadable
BadInputArgs ==
    {[BaseArgs EXCEPT !.video = v, !.audio = a, !.waveform = <<AmpDen, 0>>] :
        v \in {"bytes", "corrupt_bytes", "other"},
        a \in {"dict", "unwritable_dict", "other"}}

CallArgs == TimelineArgs \cup StyleArgs \cup BadInputArgs

NoOverlay == [w |-> 0, h |-> 0, wave_type |-> "", wave_width |-> 0,
              wave_height |-> 0, wave_color_rgb |-> <<>>, wave_y_mid |-> 0,
              sample_rate |-> 0, waveform |-> <<>>,
              duration |-> [num |-> 0, den |-> 1]]

NoFrame == [size |-> <<0, 0>>, channels |-> 0, draws |-> <<>>]

(***************************************************************************)
(* combine_audio_soundwave, step by step.                                  *)
(***************************************************************************)
RunInit ==
    /\ pc = "idle"
    /\ args = BaseArgs
    /\ files = {}
    /\ temp_output_path = "None"
    /\ error = "none"
    /\ overlay = NoOverlay
    /\ frame_no = -1
    /\ amp = 0
    /\ frame_img = NoFrame

ColorInit ==
    /\ hex_color = NotAString
    /\ rgb = HexToRgb(NotAString)

Init == RunInit /\ ColorInit

\* the node is called: temp_output_path = None
Call ==
    /\ pc = "idle"
    /\ \E a \in CallArgs : args' = a
    /\ pc' = "video_input"
    /\ temp_output_path' = "None"
    /\ UNCHANGED <<files, error, overlay, frame_no, amp, frame_img, colorVars>>

\* an exception leaves the try block: except wraps it, then finally runs
Raise(e) == error' = e /\ pc' = "finally"

\* video input: bytes are written to a NamedTemporaryFile(delete=False) and
\* opened; anything else is a TypeError before any file exists
VideoInput ==
    /\ pc = "video_input"
    /\ IF args.video = "other"
       THEN Raise("TypeError") /\ UNCHANGED files
       ELSE /\ files' = files \cup {"video"}
            /\ IF args.video = "corrupt_bytes"
               THEN Raise("OSError")
               ELSE pc' = "audio_input" /\ UNCHANGED error
    /\ UNCHANGED <<args, temp_output_path, overlay, frame_no, amp, frame_img,
                   colorVars>>

\* audio input: the waveform is written to a NamedTemporaryFile(delete=False)
\* and opened; anything but a dict with both keys is a TypeError
AudioInput ==
    /\ pc = "audio_input"
    /\ IF args.audio = "other"
       THEN Raise("TypeError") /\ UNCHANGED files
       ELSE /\ files' = files \cup {"audio"}
            /\ IF args.audio = "unwritable_dict"
               THEN Raise("OSError")
               ELSE pc' = "compose" /\ UNCHANGED error
    /\ UNCHANGED <<args, temp_output_path, overlay, frame_no, amp, frame_img,
                   colorVars>>

\* total duration, the silent lead-in, the overlay clip
Compose ==
    /\ pc = "compose"
    /\ overlay' = CreateWaveOverlay(args,
                      TotalDuration(args.start_duration, Len(args.waveform),
                                    args.sample_rate, args.end_duration))
    /\ pc' = "open_output"
    /\ UNCHANGED <<args, files, temp_output_path, error, frame_no, amp,
                   frame_img, colorVars>>

\* the output NamedTemporaryFile(delete=False)
OpenOutput ==
    /\ pc = "open_output"
    /\ files' = files \cup {"output"}
    /\ temp_output_path' = "output"
    /\ pc' = "write_videofile"
    /\ UNCHANGED <<args, error, overlay, frame_no, amp, frame_img, colorVars>>

\* write_videofile asks make_frame for the next frame
MakeFrame ==
    /\ pc = "write_videofile"
    /\ frame_no + 1 < NumFrames(overlay.duration)
    /\ frame_no' = frame_no + 1
    /\ amp' = SampleAt(overlay.waveform,
                       SampleIndex(frame_no + 1, overlay.sample_rate))
    /\ frame_img' = DrawFrame(overlay, amp')
    /\ UNCHANGED <<pc, args, files, temp_output_path, error, overlay, colorVars>>

\* every frame is written: the clips are closed
FinishWrite ==
    /\ pc = "write_videofile"
    /\ frame_no + 1 = NumFrames(overlay.duration)
    /\ pc' = "upload"
    /\ UNCHANGED <<args, files, temp_output_path, error, overlay, frame_no, amp,
                   frame_img, colorVars>>

\* the encoder fails part-way
WriteFails ==
    /\ pc = "write_videofile"
    /\ Raise("IOError")
    /\ UNCHANGED <<args, files, temp_output_path, overlay, frame_no, amp,
                   frame_img, colorVars>>

\* _upload_to_drive succeeds, then the payload is read and the tuple returned
UploadAndReturn ==
    /\ pc = "upload"
    /\ pc' = "finally"
    /\ UNCHANGED <<args, files, temp_output_path, error, overlay, frame_no, amp,
                   frame_img, colorVars>>

\* _upload_to_drive raises RuntimeError
UploadFails ==
    /\ pc = "upload"
    /\ Raise("RuntimeError")
    /\ UNCHANGED <<args, files, temp_output_path, overlay, frame_no, amp,
                   frame_img, colorVars>>

\* finally: only temp_output_path is unlinked, when it is set and exists
Finally ==
    /\ pc = "finally"
    /\ files' = IF temp_output_path # "None" /\ temp_output_path \in files
                THEN files \ {temp_output_path} ELSE files
    /\ pc' = IF error = "none" THEN "returned" ELSE "raised"
    /\ UNCHANGED <<args, temp_output_path, error, overlay, frame_no, amp,
                   frame_img, colorVars>>

Next ==
    \/ Call
    \/ VideoInput
    \/ AudioInput
    \/ Compose
    \/ OpenOutput
    \/ MakeFrame
    \/ FinishWrite
    \/ WriteFails
    \/ UploadAndReturn
    \/ UploadFails
    \/ Finally

Spec == Init /\ [][Next]_vars

(***************************************************************************)
(* _hex_to_rgb called on its own, on every string over ColorAlphabet of at *)
(* most MaxColorLen characters and on a value that is no string.           *)
(***************************************************************************)
ColorAlphabet == {"#", "0", "1", "a", "+", ","}

\* one call, on a string or on a value that is no string
HexToRgbOf(c) ==
    /\ hex_color' = c
    /\ rgb' = HexToRgb(c)

HexToRgbCall ==
    /\ pc = "idle"
    /\ \/ HexToRgbOf(NotAString)
       \/ \E n \in 0..MaxColorLen :
             \E s \in [1..n -> ColorAlphabet] : HexToRgbOf(Str(s))
    /\ pc' = "color_done"
    /\ UNCHANGED <<args, files, temp_output_path, error, overlay, frame_no, amp,
                   frame_img>>

SpecColor == Init /\ [][HexToRgbCall]_vars

(***************************************************************************)
(* Properties of _hex_to_rgb, stated for SpecColor.                        *)
(***************************************************************************)
AllHex(s) == \A i \in 1..Len(s) : IsHexDigit(s[i])

\* a well-formed colour: leading '#' characters, then six hex digits
WellFormedHex(c) ==
    /\ c.kind = "str"
    /\ Len(LStripHash(c.chars)) = HexLen
    /\ AllHex(LStripHash(c.chars))

\* "#RRGGBB" exactly
IsHashHex(c) ==
    /\ c.kind = "str"
    /\ Len(c.chars) = HexLen + 1
    /\ Head(c.chars) = "#"
    /\ AllHex(Tail(c.chars))

Byte(s, i) == 16 * HexVal(s[i]) + HexVal(s[i + 1])

IsDecDigit(ch) == IsHexDigit(ch) /\ HexVal(ch) <= 9

RECURSIVE DecValue(_)
DecValue(s) == IF s = <<>> THEN 0
               ELSE 10 * DecValue(SubSeq(s, 1, Len(s) - 1)) + HexVal(s[Len(s)])

IsComponent(s) ==
    /\ s # <<>>
    /\ \A i \in 1..Len(s) : IsDecDigit(s[i])
    /\ DecValue(s) <= 255

Commas(s) == {i \in 1..Len(s) : s[i] = ","}

\* the three components of "R,G,B"
TripletParts(s) ==
    LET i == CHOOSE x \in Commas(s) : \A y \in Commas(s) : x <= y
        j == CHOOSE x \in Commas(s) : \A y \in Commas(s) : x >= y
    IN  <<SubSeq(s, 1, i - 1), SubSeq(s, i + 1, j - 1), SubSeq(s, j + 1, Len(s))>>

\* a comma-separated triplet "R,G,B" with components in 0..255
IsTriplet(c) ==
    /\ c.kind = "str"
    /\ Cardinality(Commas(c.chars)) = 2
    /\ \A k \in 1..3 : IsComponent(TripletParts(c.chars)[k])

TripletColor(c) == [k \in 1..3 |-> DecValue(TripletParts(c.chars)[k])]

\* C6 as claimed: every colour input that is not a well-formed colour yields
\* the default colour (255, 0, 0, 255) and raises nothing.
C6_MalformedYieldsDefault ==
    (pc = "color_done" /\ ~WellFormedHex(hex_color))
        => (~rgb.raised /\ rgb.value = DefaultColor)

\* C7 as claimed: a comma-separated triplet "R,G,B" produces the colour
\* (R, G, B), the colour the hex string for the same components produces.
C7_TripletAccepted ==
    (pc = "color_done" /\ IsTriplet(hex_color))
        => (~rgb.raised /\ SubSeq(rgb.value, 1, 3) = TripletColor(hex_color))

\* C7 amended: only the hex form is accepted.  "#RRGGBB" yields
\* (R, G, B, 255); every string that holds a comma, so every comma-separated
\* triplet, yields the default colour (255, 0, 0, 255); neither raises.
C7_OnlyHexAccepted ==
    pc = "color_done" =>
        /\ ~rgb.raised
        /\ IsHashHex(hex_color) =>
              rgb.value = <<Byte(hex_color.chars, 2), Byte(hex_color.chars, 4),
                            Byte(hex_color.chars, 6), Opaque>>
        /\ (hex_color.kind = "str" /\ Commas(hex_color.chars) # {}) =>
              rgb.value = DefaultColor

\* C7 witness: a triplet for a colour other than the default was parsed and
\* came out as the default colour.
C7_Witness ==
    /\ pc = "color_done"
    /\ IsTriplet(hex_color)
    /\ TripletColor(hex_color) # SubSeq(DefaultColor, 1, 3)
    /\ rgb.value = DefaultColor

(***************************************************************************)
(* Properties of the run and of its frames, stated for Spec.               *)
(***************************************************************************)
\* make_frame has produced a frame
FrameMade == frame_no >= 0

InputLen == Len(args.waveform)

LastSample == args.waveform[InputLen]

\* the frame's time k / Fps is past (at or past) the end of the audio track,
\* which lasts InputLen / sample_rate seconds
BeyondAudio == frame_no * args.sample_rate > Fps * InputLen

AtOrBeyondAudio == frame_no * args.sample_rate >= Fps * InputLen

\* the sample is within full scale
InRange(a) == Abs(a) <= AmpDen

\* the only thing drawn on the frame
TheDraw == frame_img.draws[1]

\* C1 as claimed: for a frame at a time beyond the audio track's duration the
\* amplitude is that of the track's last sample.
C1_ClampsToLastSample ==
    (FrameMade /\ BeyondAudio) => amp = LastSample

\* C1 amended: for a frame at a time at or beyond the audio track's duration
\* the amplitude is 0 (the waveform is zero-padded and an index past it reads
\* as 0), and the frame is produced all the same.
C1_SilentBeyondAudio ==
    (FrameMade /\ AtOrBeyondAudio) =>
        /\ amp = 0
        /\ frame_img.size = args.size
        /\ pc = "write_videofile" => error = "none"

\* C1 witness: a frame beyond the end of a track whose last sample is not 0
\* came out with amplitude 0.
C1_Witness ==
    FrameMade /\ BeyondAudio /\ LastSample # 0 /\ amp = 0

\* C2 as claimed: the amplitude the drawing code consumes lies in [-1, 1].
C2_AmplitudeNormalized ==
    FrameMade => InRange(amp)

\* C3 as claimed: the bar spans from anchor_y - amp_px to anchor_y + amp_px
\* with amp_px = round(H * a).
C3_BarSpansAmpPx ==
    (FrameMade /\ overlay.wave_type = "columns" /\ InRange(amp)) =>
        LET amp_px == RoundDiv(overlay.wave_height * Abs(amp), AmpDen)
        IN  /\ Len(frame_img.draws) = 1
            /\ TheDraw.y0 = overlay.wave_y_mid - amp_px
            /\ TheDraw.y1 = overlay.wave_y_mid + amp_px

\* C3 amended: the bar is one filled rectangle about the anchor whose whole
\* height is |a| * H: it reaches |a| * H / 2 above and below the anchor (each
\* edge within a pixel, by int()'s truncation); a half-scale sample with
\* H = 100 reaches 25 pixels above and below; a = 0 gives a rectangle of zero
\* vertical extent at the anchor.
C3_BarSpansHalfHeight ==
    (FrameMade /\ overlay.wave_type = "columns") =>
        LET mid == overlay.wave_y_mid
            full == Abs(amp) * overlay.wave_height
        IN  /\ Len(frame_img.draws) = 1
            /\ TheDraw.op = "rectangle"
            /\ TheDraw.y0 <= mid /\ mid <= TheDraw.y1
            /\ Abs(2 * AmpDen * (mid - TheDraw.y0) - full) < 2 * AmpDen
            /\ Abs(2 * AmpDen * (TheDraw.y1 - mid) - full) < 2 * AmpDen
            /\ (2 * Abs(amp) = AmpDen /\ overlay.wave_height = 100) =>
                  (TheDraw.y0 = mid - 25 /\ TheDraw.y1 = mid + 25)
            /\ amp = 0 => (TheDraw.y0 = mid /\ TheDraw.y1 = mid)

\* C3 witness: a half-scale sample drawn as a column with H = 100 reaches 25
\* pixels each side of the anchor.
C3_Witness ==
    /\ FrameMade /\ overlay.wave_type = "columns"
    /\ 2 * Abs(amp) = AmpDen /\ overlay.wave_height = 100
    /\ TheDraw.y0 = overlay.wave_y_mid - 25
    /\ TheDraw.y1 = overlay.wave_y_mid + 25

\* C4 as claimed: what is handed to the drawing primitives stays inside the
\* frame, and the bar covers exactly min(width, frame_width) columns, centred
\* (start_x = (frame_width - width) / 2, to the pixel).
C4_DrawingWithinFrame ==
    (FrameMade /\ InRange(amp)) =>
        \A i \in 1..Len(frame_img.draws) :
            LET d == frame_img.draws[i]
                width == Min(overlay.wave_width, overlay.w)
            IN  /\ 0 <= d.x0 /\ d.x1 <= overlay.w
                /\ 0 <= d.y0 /\ d.y0 <= overlay.h
                /\ 0 <= d.y1 /\ d.y1 <= overlay.h
                /\ d.op = "rectangle" =>
                      /\ Abs(2 * d.x0 - (overlay.w - width)) <= 1
                      /\ d.x1 - d.x0 + 1 = width

\* a point (xn / xd, y) lies on the straight line drawn by d
OnLine(d, xn, xd, y) ==
    (y - d.y0) * (d.x1 - d.x0) * xd = (d.y1 - d.y0) * (xn - d.x0 * xd)

\* C5 as claimed: the curve is one sine period: on the anchor line at
\* progress 0 and 1/2, amp_px above it at 1/4, amp_px below it at 3/4.
C5_OneSinePeriod ==
    (FrameMade /\ overlay.wave_type = "wave" /\ InRange(amp)) =>
        LET d == TheDraw
            amp_px == RoundDiv(overlay.wave_height * Abs(amp), AmpDen)
            span == d.x1 - d.x0
        IN  /\ OnLine(d, d.x0, 1, overlay.wave_y_mid)
            /\ OnLine(d, 4 * d.x0 + span, 4, overlay.wave_y_mid - amp_px)
            /\ OnLine(d, 2 * d.x0 + span, 2, overlay.wave_y_mid)
            /\ OnLine(d, 4 * d.x0 + 3 * span, 4, overlay.wave_y_mid + amp_px)

\* C5 amended: the wave shape is a single straight line, wave_width thick,
\* from (0, anchor_y) to (frame_width, anchor_y + int(a * H)): it starts on
\* the anchor line and ends int(a * H) pixels below it (above it for a < 0);
\* amplitude changes only that end point, and with amplitude 0 the line is
\* flat at anchor_y.
C5_StraightLine ==
    (FrameMade /\ overlay.wave_type = "wave") =>
        LET d == TheDraw
            mid == overlay.wave_y_mid
        IN  /\ Len(frame_img.draws) = 1
            /\ d.op = "line" /\ d.width = overlay.wave_width
            /\ d.x0 = 0 /\ d.y0 = mid
            /\ d.x1 = overlay.w
            /\ Abs(AmpDen * (d.y1 - mid) - amp * overlay.wave_height) < AmpDen
            /\ amp = 0 => d.y1 = mid

\* C5 witness: a non-zero sample within full scale drawn as a wave ends off
\* the anchor line.
C5_Witness ==
    /\ FrameMade /\ overlay.wave_type = "wave"
    /\ amp # 0 /\ InRange(amp)
    /\ TheDraw.y1 # overlay.wave_y_mid

\* C8: with a wave_type that is neither "columns" nor "wave" the frame
\* make_frame returns is the blank frame it started from: nothing is drawn,
\* it has the video's width and height and four channels, and nothing is
\* raised.
C8_UnknownShapeDrawsNothing ==
    (FrameMade /\ overlay.wave_type \notin {"columns", "wave"}) =>
        /\ frame_img = [size |-> args.size, channels |-> 4, draws |-> <<>>]
        /\ pc = "write_videofile" => error = "none"

\* C8 witness: a frame was made for wave_type "bar" from a non-zero sample.
C8_Witness ==
    /\ FrameMade /\ overlay.wave_type = "bar" /\ amp # 0
    /\ frame_img.draws = <<>>

\* the sample of the output audio playing at frame k: silence during the
\* lead-in of start_duration, then the input waveform, then nothing
OutputAudioAt(k) ==
    IF k * DurDen < Fps * args.start_duration THEN 0
    ELSE LET index == TruncDiv((k * DurDen - Fps * args.start_duration)
                                   * args.sample_rate, Fps * DurDen)
         IN  IF index < InputLen THEN args.waveform[index + 1] ELSE 0

\* C9 as claimed: the amplitude drawn in the frame at t is that of the audio
\* playing at t in the output.
C9_OverlayFollowsOutputAudio ==
    FrameMade => amp = OutputAudioAt(frame_no)

\* C10 as claimed: when combine_audio_soundwave has finished, by returning
\* or by raising, no temporary file it created is left.
C10_TempFilesRemoved ==
    pc \in {"returned", "raised"} => files = {}

====
